---- MODULE Spec2Model ----
(***************************************************************************)
(* Model of src/server.js: the /api/price handler (single-flight guard,    *)
(* watchdog timer, quote cache, browser session, extraction chain) and the *)
(* process-level error handlers.                                           *)
(*                                                                         *)
(* Node runs the handler cooperatively: one atomic step runs from one      *)
(* await to the next.  Every action below is one such segment.  The code   *)
(* reads the clock only in differences, so the model keeps the differences *)
(* (the age of the cached price, the time left on each timer), in          *)
(* milliseconds.  JS numbers (prices) are in thousandths.                  *)
(***************************************************************************)
EXTENDS Integers, Sequences, FiniteSets, TLC

\* ---------------------------------------------------------------- bounds
NumRequests == 2
TickMs == 15000

\* ------------------------------------------------------ program constants
CACHE_TIME == 30000
WATCHDOG_MS == 90000
MIN_BLOCK_LENGTH == 5000
BAND_LOW == 50000
BAND_HIGH == 150000

Requests == 1..NumRequests

\* ------------------------------------------------------------- JS values
Null == [k |-> "null"]
NaN == [k |-> "nan"]
Infinity == [k |-> "inf"]
Num(m) == [k |-> "fin", m |-> m]
Str(s) == [k |-> "str", s |-> s]
Text(chars) == [k |-> "text", s |-> chars]

\* parseFloat: of a page string (value in thousandths), or of a number (itself)
ParseFloat(x) ==
    CASE x.k = "str" /\ x.s = "87.45"    -> Num(87450)
      [] x.k = "str" /\ x.s = "92.10"    -> Num(92100)
      [] x.k = "str" /\ x.s = "101.5"    -> Num(101500)
      [] x.k = "str" /\ x.s = "200.5"    -> Num(200500)
      [] x.k = "str" /\ x.s = "500.25"   -> Num(500250)
      [] x.k = "str" /\ x.s = "45.5"     -> Num(45500)
      [] x.k = "str" /\ x.s = "0.004"    -> Num(4)
      [] x.k = "str" /\ x.s = "0"        -> Num(0)
      [] x.k = "str" /\ x.s = "-5"       -> Num(0 - 5000)
      [] x.k = "str" /\ x.s = "Infinity" -> Infinity
      [] x.k \in {"fin", "inf", "nan"}   -> x
      [] OTHER                           -> NaN

\* isNaN(x)
IsNaN(x) == x.k = "nan"

\* x > 0 on a JS number (NaN compares false, Infinity is greater)
GreaterThanZero(x) ==
    CASE x.k = "fin" -> x.m > 0
      [] x.k = "inf" -> TRUE
      [] OTHER       -> FALSE

\* x <= 0 on a JS number
AtMostZero(x) ==
    CASE x.k = "fin" -> x.m <= 0
      [] OTHER       -> FALSE

\* JS truthiness of a value
Truthy(x) ==
    CASE x.k = "null" -> FALSE
      [] x.k = "nan"  -> FALSE
      [] x.k = "fin"  -> x.m # 0
      [] x.k = "str"  -> x.s # ""
      [] x.k = "text" -> x.s # <<>>
      [] OTHER        -> TRUE

\* mutant: the upper end of the band is not checked
InBandNoUpper(x) == x.k = "fin" /\ x.m >= BAND_LOW

\* candidate >= 50 && candidate <= 150
InBand(x) == x.k = "fin" /\ x.m >= BAND_LOW /\ x.m <= BAND_HIGH

\* ------------------------------------------------- strings of characters
Digit(d) == <<"0", "1", "2", "3", "4", "5", "6", "7", "8", "9">>[d + 1]

IsDigit(ch) == ch \in {"0", "1", "2", "3", "4", "5", "6", "7", "8", "9"}

DigitValue(ch) == CHOOSE d \in 0..9 : Digit(d) = ch

RECURSIVE NatChars(_)
\* the decimal digits of a natural number
NatChars(n) == IF n < 10 THEN <<Digit(n)>> ELSE NatChars(n \div 10) \o <<Digit(n % 10)>>

\* Number.prototype.toFixed(2) of a number of thousandths
ToFixed2(x) ==
    CASE x.k = "fin" /\ x.m >= 0 ->
            LET c == (x.m + 5) \div 10
            IN  Text(NatChars(c \div 100) \o <<".", Digit((c \div 10) % 10), Digit(c % 10)>>)
      [] x.k = "fin" /\ x.m < 0 ->
            LET c == ((0 - x.m) + 5) \div 10
            IN  Text(<<"-">> \o NatChars(c \div 100) \o <<".", Digit((c \div 10) % 10), Digit(c % 10)>>)
      [] x.k = "inf" -> Text(<<"I", "n", "f", "i", "n", "i", "t", "y">>)
      [] OTHER       -> Text(<<"N", "a", "N">>)

\* ------------------------------------------------------ in-page functions
NoMatch == ""

\* text.match(/(\d{2,3}\.\d{1,2})/): the captured group of the first match
RegexPrice(text) ==
    CASE text = "92.10"      -> "92.10"
      [] text = "101.5 USDT" -> "101.5"
      [] text = "45.5"       -> "45.5"
      [] text = "1500.25"    -> "500.25"
      [] OTHER               -> NoMatch

\* window.gon && window.gon.ticker && window.gon.ticker.last (waitForFunction)
GonReady(w) == w.gon /\ w.ticker /\ Truthy(w.last)

\* the primary strategy's page function (window.gon.ticker.last)
GonStrategy(w) ==
    IF ~w.gon THEN Null
    ELSE IF ~w.ticker THEN Null
    ELSE IF ~Truthy(w.last) THEN Null
    ELSE LET parsed == ParseFloat(w.last)
         IN  IF IsNaN(parsed) \/ AtMostZero(parsed) THEN Null ELSE parsed

RECURSIVE FirstCandidate(_)
\* the first cell of a row whose text matches and is in the band
FirstCandidate(cells) ==
    IF cells = <<>> THEN Null
    ELSE LET priceMatch == RegexPrice(Head(cells))
             candidate == ParseFloat(Str(priceMatch))
         IN  IF priceMatch # NoMatch /\ InBand(candidate)
             THEN candidate
             ELSE FirstCandidate(Tail(cells))

RECURSIVE WalkContainers(_)
\* walks up the ancestors of the label; rows[1] is the first data row
WalkContainers(ancestors) ==
    IF ancestors = <<>> THEN Null
    ELSE LET rows == Head(ancestors)
             found == IF Len(rows) > 1 THEN FirstCandidate(rows[2]) ELSE Null
         IN  IF found # Null THEN found ELSE WalkContainers(Tail(ancestors))

\* the secondary strategy's page function (the recent-trades table)
TableStrategy(dom) ==
    IF ~dom.label THEN Null ELSE WalkContainers(dom.ancestors)

\* the tertiary strategy's page function (the text after the label)
TextStrategy(body) ==
    IF body.label
    THEN LET priceMatch == RegexPrice(body.after)
             candidate == ParseFloat(Str(priceMatch))
         IN  IF priceMatch # NoMatch /\ InBand(candidate) THEN candidate ELSE Null
    ELSE Null

\* price && price > 0
Usable(price) == Truthy(price) /\ GreaterThanZero(price)

PwErrorMsg == "playwright error"
BlockedRedirectMsg == "blocked (redirect)"
BlockedMarkerMsg == "blocked (servicepipe.ru)"
NoPriceMsg == "price not found"
NotBlocked == ""

\* mutant: the marker alone counts as a block, whatever the page's length
BlockCheckAnyLength(url, content) ==
    IF url \in {"exhkqyad", "servicepipe.ru"}
    THEN BlockedRedirectMsg
    ELSE IF content.marker THEN BlockedMarkerMsg ELSE NotBlocked

\* the block detection check on the resolved URL and the page content: the
\* message of the error it throws, or NotBlocked
BlockCheck(url, content) ==
    IF url \in {"exhkqyad", "servicepipe.ru"}
    THEN BlockedRedirectMsg
    ELSE IF content.marker /\ content.length < MIN_BLOCK_LENGTH
         THEN BlockedMarkerMsg
         ELSE NotBlocked

\* -------------------------------------------------- what a page can hold
WindowSamples ==
    { [gon |-> FALSE, ticker |-> FALSE, last |-> Null],
      [gon |-> TRUE, ticker |-> FALSE, last |-> Null],
      [gon |-> TRUE, ticker |-> TRUE, last |-> Null],
      [gon |-> TRUE, ticker |-> TRUE, last |-> Str("")],
      [gon |-> TRUE, ticker |-> TRUE, last |-> Str("0")],
      [gon |-> TRUE, ticker |-> TRUE, last |-> Str("-5")],
      [gon |-> TRUE, ticker |-> TRUE, last |-> Str("abc")],
      [gon |-> TRUE, ticker |-> TRUE, last |-> Str("87.45")],
      [gon |-> TRUE, ticker |-> TRUE, last |-> Num(87450)],
      [gon |-> TRUE, ticker |-> TRUE, last |-> Str("0.004")],
      [gon |-> TRUE, ticker |-> TRUE, last |-> Str("Infinity")] }

HeaderRow == <<"Time", "Amount", "Price">>

DomSamples ==
    { [label |-> FALSE, ancestors |-> <<>>],
      [label |-> TRUE, ancestors |-> << <<HeaderRow>> >>],
      [label |-> TRUE,
       ancestors |-> << <<HeaderRow>>,
                        <<HeaderRow, <<"12:30:01", "0.5321", "92.10">>, <<"12:29:58", "1.2", "45.5">> >> >>],
      [label |-> TRUE,
       ancestors |-> << <<HeaderRow, <<"12:30:01", "45.5", "1500.25">> >> >>] }

BodySamples ==
    { [label |-> FALSE, after |-> ""],
      [label |-> TRUE, after |-> "101.5 USDT"],
      [label |-> TRUE, after |-> "1500.25"],
      [label |-> TRUE, after |-> "no trades"] }

TradingUrl == "grinex.io/trading/usdta7a5"

\* what page.url() and page.content() can return together
PageSamples ==
    { [url |-> TradingUrl, content |-> [length |-> 1000, marker |-> FALSE]],
      [url |-> TradingUrl, content |-> [length |-> 4999, marker |-> TRUE]],
      [url |-> TradingUrl, content |-> [length |-> 5000, marker |-> TRUE]],
      [url |-> "exhkqyad", content |-> [length |-> 1000, marker |-> FALSE]],
      [url |-> "servicepipe.ru", content |-> [length |-> 5000, marker |-> TRUE]] }

\* what the awaits of a page can resolve to
ReadyWindows == {w \in WindowSamples : GonReady(w)}
GonResults == {GonStrategy(w) : w \in WindowSamples}
TableResults == {TableStrategy(dom) : dom \in DomSamples}
TextResults == {TextStrategy(body) : body \in BodySamples}

\* ----------------------------------------------------------------- state
VARIABLES
    alive,             \* the process has not exited
    isProcessing,      \* the single-flight flag
    lastPrice,         \* the cached price string, or Null
    lastPriceAge,      \* Date.now() - lastPriceTime, kept up to CACHE_TIME
    processingTimeout, \* the handle of the last watchdog timer armed, or NoTimer
    timers,            \* the pending timers of the event loop
    pc,                \* each request's handler: the await it is suspended at
    browser,           \* each handler's `browser`: none, open
    context,           \* each handler's `context`: none, open, closed, close_failed
    page,              \* each handler's `page`: none, the last navigation done
                       \* (blank, root, trading), or open once that is behind
    price,             \* each handler's `price`
    method,            \* each handler's `method`
    pageContent,       \* each handler's `pageContent`, while the check reads it
    pageUrl,           \* each handler's `pageUrl`, while the check reads it
    sent,              \* how many responses each request's `res` has sent
    out                \* the response the last step sent, and to whom

clockVars == <<alive>>
guardVars == <<isProcessing, processingTimeout, timers>>
cacheVars == <<lastPrice, lastPriceAge>>
pageVars == <<pageContent, pageUrl>>
localVars == <<browser, context, page, price, method, pageContent, pageUrl>>
vars == <<alive, isProcessing, lastPrice, lastPriceAge,
          processingTimeout, timers, pc, browser, context, page, price, method,
          pageContent, pageUrl, sent, out>>

NoTimer == 0
NoMethod == ""
NoContent == [length |-> 0, marker |-> FALSE]
NoUrl == ""
GonMethod == "window.gon.ticker.last"
TableMethod == "table"
TextMethod == "text"

NoOutput == [to |-> 0]
BusyResponse == [status |-> 503, success |-> FALSE, error |-> "busy"]
\* `updated` is given as the age of the timestamp when the response is sent
CachedResponse(p, age) ==
    [status |-> 200, success |-> TRUE, price |-> p, updated |-> age, cached |-> TRUE]
SuccessResponse(p, m) ==
    [status |-> 200, success |-> TRUE, price |-> p, updated |-> 0, method |-> m]
FailureResponse(msg) == [status |-> 500, success |-> FALSE, error |-> msg]

Init ==
    /\ alive = TRUE
    /\ isProcessing = FALSE
    /\ lastPrice = Null
    /\ lastPriceAge = CACHE_TIME
    /\ processingTimeout = NoTimer
    /\ timers = {}
    /\ pc = [r \in Requests |-> "idle"]
    /\ browser = [r \in Requests |-> "none"]
    /\ context = [r \in Requests |-> "none"]
    /\ page = [r \in Requests |-> "none"]
    /\ price = [r \in Requests |-> Null]
    /\ method = [r \in Requests |-> NoMethod]
    /\ pageContent = [r \in Requests |-> NoContent]
    /\ pageUrl = [r \in Requests |-> NoUrl]
    /\ sent = [r \in Requests |-> 0]
    /\ out = NoOutput

\* ------------------------------------------------------------- helpers
Goto(r, label) == pc' = [pc EXCEPT ![r] = label]

\* res.json(response)
Send(r, response) ==
    /\ out' = [to |-> r, body |-> response]
    /\ sent' = [sent EXCEPT ![r] = @ + 1]

\* a step that sends nothing
Quiet == out' = NoOutput /\ UNCHANGED sent

\* clearTimeout(handle)
ClearTimeout(ts, handle) == {t \in ts : t.id # handle}

\* mutant: an entry aged exactly CACHE_TIME still counts as fresh
CacheFreshInclusive(lp, age) == Truthy(lp) /\ age <= CACHE_TIME

\* lastPrice && (Date.now() - lastPriceTime) < CACHE_TIME
CacheFresh(lp, age) == Truthy(lp) /\ age < CACHE_TIME

\* mutant: the handle is dropped but the timer is left pending
ResetGuardKeepTimer ==
    /\ isProcessing' = FALSE
    /\ processingTimeout' = NoTimer
    /\ UNCHANGED timers

\* isProcessing = false; if (processingTimeout) { clearTimeout; = null }
ResetGuard ==
    /\ isProcessing' = FALSE
    /\ IF processingTimeout # NoTimer
       THEN /\ timers' = ClearTimeout(timers, processingTimeout)
            /\ processingTimeout' = NoTimer
       ELSE UNCHANGED <<timers, processingTimeout>>

\* the end of the finally block; the handler returns
FinallyTail(r) ==
    /\ ResetGuard
    /\ Goto(r, "done")

\* the finally block up to its first await
BeginFinally(r) ==
    IF context[r] # "none"
    THEN Goto(r, "closeContext") /\ UNCHANGED guardVars
    ELSE IF browser[r] # "none"
         THEN Goto(r, "closeBrowser") /\ UNCHANGED guardVars
         ELSE FinallyTail(r)

\* mutant: a catch block that also drops the cached price
CatchBlockErasing(r, msg) ==
    /\ Send(r, FailureResponse(msg))
    /\ lastPrice' = Null
    /\ lastPriceAge' = CACHE_TIME

\* mutant: a catch block that sends no response
CatchBlockSilent(r, msg) ==
    /\ Quiet
    /\ UNCHANGED cacheVars

\* mutant: a catch block that answers from the cache while the entry is fresh
CatchBlockCached(r, msg) ==
    /\ IF CacheFresh(lastPrice, lastPriceAge)
       THEN Send(r, CachedResponse(lastPrice, lastPriceAge))
       ELSE Send(r, FailureResponse(msg))
    /\ UNCHANGED cacheVars

\* the outer catch block
CatchBlock(r, msg) ==
    /\ Send(r, FailureResponse(msg))
    /\ UNCHANGED cacheVars

\* an error thrown inside the outer try: catch, then finally
Throw(r, msg) ==
    /\ CatchBlock(r, msg)
    /\ BeginFinally(r)

\* mutant: the price is stored and the timestamp left as it was
SucceedPriceOnly(r, p, m) ==
    /\ lastPrice' = ToFixed2(ParseFloat(p))
    /\ UNCHANGED lastPriceAge
    /\ Send(r, SuccessResponse(lastPrice', IF m # NoMethod THEN m ELSE "unknown"))
    /\ BeginFinally(r)

\* the cache update and the success response
Succeed(r, p, m) ==
    /\ lastPrice' = ToFixed2(ParseFloat(p))
    /\ lastPriceAge' = 0
    /\ Send(r, SuccessResponse(lastPrice', IF m # NoMethod THEN m ELSE "unknown"))
    /\ BeginFinally(r)

\* mutant: the next strategy runs whatever the last one found
NotFoundAlways(p) == TRUE

\* !price || price <= 0
NotFound(p) == ~Truthy(p) \/ AtMostZero(p)

\* the handler from the end of one strategy to its next await: `next` is the
\* first strategy not yet tried (2, 3) or 4 when the chain is through.  Nothing
\* reads `price` and `method` once the try block is left: they are kept only
\* while the chain runs.
Continue(r, next, p, m) ==
    /\ UNCHANGED <<browser, context, page, pageVars>>
    /\ IF next <= 2 /\ NotFound(p)
       THEN /\ Goto(r, "evalTable") /\ Quiet /\ UNCHANGED <<guardVars, cacheVars>>
            /\ price' = [price EXCEPT ![r] = p]
            /\ method' = [method EXCEPT ![r] = m]
       ELSE IF next <= 3 /\ NotFound(p)
            THEN /\ Goto(r, "evalText") /\ Quiet /\ UNCHANGED <<guardVars, cacheVars>>
                 /\ price' = [price EXCEPT ![r] = p]
                 /\ method' = [method EXCEPT ![r] = m]
            ELSE /\ IF NotFound(p) THEN Throw(r, NoPriceMsg) ELSE Succeed(r, p, m)
                 /\ price' = [price EXCEPT ![r] = Null]
                 /\ method' = [method EXCEPT ![r] = NoMethod]

\* an await that only moves on
Proceed(r, label) ==
    /\ Goto(r, label)
    /\ Quiet
    /\ UNCHANGED <<guardVars, cacheVars, localVars>>

\* an await whose rejection reaches the outer catch
Reject(r) ==
    /\ Throw(r, PwErrorMsg)
    /\ UNCHANGED localVars

\* await page.goto(...) resolved: the page shows `where`
Navigated(r, where, label) ==
    /\ page' = [page EXCEPT ![r] = where]
    /\ Goto(r, label)
    /\ Quiet
    /\ UNCHANGED <<guardVars, cacheVars, browser, context, price, method, pageVars>>

\* mutant: a failed navigation reaches the outer catch
NavigationFatal(r, label) == Reject(r)

\* await page.goto(...) rejected: the inner catch logs it and the handler
\* goes on with the page as it was
NavigationFailed(r, label) == Proceed(r, label)

\* `pageContent` and `pageUrl` once the block check is behind: nothing reads
\* them again
ForgetPage(r) ==
    /\ pageContent' = [pageContent EXCEPT ![r] = NoContent]
    /\ pageUrl' = [pageUrl EXCEPT ![r] = NoUrl]

\* the handler's locals when it has returned
Released(locals, r) == [locals EXCEPT ![r] = "none"]

\* mutant: the handle is stored but no timer is started
ArmWatchdogNoTimer(r) ==
    /\ UNCHANGED timers
    /\ processingTimeout' = r

\* processingTimeout = setTimeout(callback, 90000)
ArmWatchdog(r) ==
    /\ timers' = timers \cup {[id |-> r, due |-> WATCHDOG_MS]}
    /\ processingTimeout' = r

\* ------------------------------------------------ the /api/price handler
\* mutant: the busy branch starts the watchdog anew
BusyBranchRearming(r) ==
    /\ IF CacheFresh(lastPrice, lastPriceAge)
       THEN Send(r, CachedResponse(lastPrice, lastPriceAge))
       ELSE Send(r, BusyResponse)
    /\ Goto(r, "done")
    /\ timers' = {[id |-> t.id, due |-> WATCHDOG_MS] : t \in timers}
    /\ UNCHANGED <<isProcessing, processingTimeout>>

\* if (isProcessing) { ... }: the cached price or 503, and the handler returns
BusyBranch(r) ==
    /\ IF CacheFresh(lastPrice, lastPriceAge)
       THEN Send(r, CachedResponse(lastPrice, lastPriceAge))
       ELSE Send(r, BusyResponse)
    /\ Goto(r, "done")
    /\ UNCHANGED guardVars

\* mutant: a fresh cache entry is served without looking at the flag
ArriveCacheFirst(r) ==
    /\ alive
    /\ pc[r] = "idle"
    /\ IF r = 1 THEN TRUE ELSE pc[r - 1] # "idle"
    /\ UNCHANGED <<clockVars, cacheVars, localVars>>
    /\ IF CacheFresh(lastPrice, lastPriceAge)
       THEN /\ Send(r, CachedResponse(lastPrice, lastPriceAge))
            /\ Goto(r, "done")
            /\ UNCHANGED guardVars
       ELSE IF isProcessing
            THEN /\ Send(r, BusyResponse)
                 /\ Goto(r, "done")
                 /\ UNCHANGED guardVars
            ELSE /\ isProcessing' = TRUE
                 /\ ArmWatchdog(r)
                 /\ Goto(r, "launch")
                 /\ Quiet

\* the handler's first segment: the busy branch, or admission and the launch
Arrive(r) ==
    /\ alive
    /\ pc[r] = "idle"
    /\ IF r = 1 THEN TRUE ELSE pc[r - 1] # "idle"
    /\ UNCHANGED <<clockVars, cacheVars, localVars>>
    /\ IF isProcessing
       THEN BusyBranch(r)
       ELSE /\ isProcessing' = TRUE
            /\ ArmWatchdog(r)
            /\ Goto(r, "launch")
            /\ Quiet

\* mutant: a callback that never resets the flag
WatchdogCallbackNoReset == UNCHANGED isProcessing

\* the watchdog's callback
WatchdogCallback ==
    IF isProcessing THEN isProcessing' = FALSE ELSE UNCHANGED isProcessing

\* a due timer fires
WatchdogFire ==
    /\ alive
    /\ \E t \in timers :
        /\ t.due <= 0
        /\ timers' = timers \ {t}
    /\ WatchdogCallback
    /\ Quiet
    /\ UNCHANGED <<clockVars, cacheVars, localVars, processingTimeout, pc>>

\* await playwright.chromium.launch(...)
Launch(r) ==
    /\ alive /\ pc[r] = "launch"
    /\ UNCHANGED clockVars
    /\ \/ /\ browser' = [browser EXCEPT ![r] = "open"]
          /\ Goto(r, "newContext")
          /\ Quiet
          /\ UNCHANGED <<guardVars, cacheVars, context, page, price, method, pageVars>>
       \/ Reject(r)

\* await browser.newContext(...)
NewContext(r) ==
    /\ alive /\ pc[r] = "newContext"
    /\ UNCHANGED clockVars
    /\ \/ /\ context' = [context EXCEPT ![r] = "open"]
          /\ Goto(r, "newPage")
          /\ Quiet
          /\ UNCHANGED <<guardVars, cacheVars, browser, page, price, method, pageVars>>
       \/ Reject(r)

\* await context.newPage()
NewPage(r) ==
    /\ alive /\ pc[r] = "newPage"
    /\ UNCHANGED clockVars
    /\ \/ /\ page' = [page EXCEPT ![r] = "blank"]
          /\ Goto(r, "gotoRoot")
          /\ Quiet
          /\ UNCHANGED <<guardVars, cacheVars, browser, context, price, method, pageVars>>
       \/ Reject(r)

\* await page.goto('https://grinex.io'): a failure is swallowed
GotoRoot(r) ==
    /\ alive /\ pc[r] = "gotoRoot"
    /\ UNCHANGED clockVars
    /\ \/ Navigated(r, "root", "settleRoot")
       \/ NavigationFailed(r, "gotoTrading")

\* await page.waitForTimeout(2000), inside the same try
SettleRoot(r) ==
    /\ alive /\ pc[r] = "settleRoot"
    /\ UNCHANGED clockVars
    /\ Proceed(r, "gotoTrading")

\* await page.goto(trading page): a failure is swallowed
GotoTrading(r) ==
    /\ alive /\ pc[r] = "gotoTrading"
    /\ UNCHANGED clockVars
    /\ \/ Navigated(r, "trading", "settleTrading")
       \/ NavigationFailed(r, "settleTrading")

\* await page.waitForTimeout(5000); navigation is behind
SettleTrading(r) ==
    /\ alive /\ pc[r] = "settleTrading"
    /\ UNCHANGED clockVars
    /\ page' = [page EXCEPT ![r] = "open"]
    /\ UNCHANGED <<browser, context, price, method, pageVars>>
    /\ \/ Goto(r, "content") /\ Quiet /\ UNCHANGED <<guardVars, cacheVars>>
       \/ Throw(r, PwErrorMsg)

\* await page.content(), page.url() and the block detection check
Content(r) ==
    /\ alive /\ pc[r] = "content"
    /\ UNCHANGED clockVars
    /\ \/ \E sample \in PageSamples :
            /\ pageContent' = [pageContent EXCEPT ![r] = sample.content]
            /\ pageUrl' = [pageUrl EXCEPT ![r] = sample.url]
            /\ UNCHANGED <<browser, context, page, price, method>>
            /\ IF BlockCheck(sample.url, sample.content) # NotBlocked
               THEN Throw(r, BlockCheck(sample.url, sample.content))
               ELSE Goto(r, "waitGon") /\ Quiet /\ UNCHANGED <<guardVars, cacheVars>>
       \/ Reject(r)

\* await page.waitForFunction(...): a timeout or failure enters its catch
WaitGon(r) ==
    /\ alive /\ pc[r] = "waitGon"
    /\ UNCHANGED clockVars
    /\ ForgetPage(r)
    /\ Quiet
    /\ UNCHANGED <<guardVars, cacheVars, browser, context, page, price, method>>
    /\ \/ /\ ReadyWindows # {}
          /\ Goto(r, "evalPrimary")
       \/ Goto(r, "grace")

\* await page.waitForTimeout(10000), inside the catch of the wait
Grace(r) ==
    /\ alive /\ pc[r] = "grace"
    /\ UNCHANGED clockVars
    /\ \/ Proceed(r, "gonCheck")
       \/ Reject(r)

\* await page.evaluate(gonCheck), inside the catch of the wait
GonCheck(r) ==
    /\ alive /\ pc[r] = "gonCheck"
    /\ UNCHANGED clockVars
    /\ \/ Proceed(r, "evalPrimary")
       \/ Reject(r)

\* await page.evaluate(primary): a rejection leaves `price` as it was
EvalPrimary(r) ==
    /\ alive /\ pc[r] = "evalPrimary"
    /\ UNCHANGED clockVars
    /\ \/ \E p \in GonResults :
            Continue(r, 2, p, IF Usable(p) THEN GonMethod ELSE method[r])
       \/ Continue(r, 2, price[r], method[r])

\* await page.evaluate(table)
EvalTable(r) ==
    /\ alive /\ pc[r] = "evalTable"
    /\ UNCHANGED clockVars
    /\ \/ \E p \in TableResults :
            Continue(r, 3, p, IF Usable(p) THEN TableMethod ELSE method[r])
       \/ Continue(r, 3, price[r], method[r])

\* await page.evaluate(text)
EvalText(r) ==
    /\ alive /\ pc[r] = "evalText"
    /\ UNCHANGED clockVars
    /\ \/ \E p \in TextResults :
            Continue(r, 4, p, IF Usable(p) THEN TextMethod ELSE method[r])
       \/ Continue(r, 4, price[r], method[r])

\* mutant: a failure closing the context ends the cleanup, the browser left open
CloseContextFatal(r) ==
    /\ alive /\ pc[r] = "closeContext"
    /\ UNCHANGED <<clockVars, cacheVars, price, method>>
    /\ ForgetPage(r)
    /\ page' = Released(page, r)
    /\ Quiet
    /\ \/ /\ context' = [context EXCEPT ![r] = "closed"]
          /\ Goto(r, "closeBrowser")
          /\ UNCHANGED <<guardVars, browser>>
       \/ /\ context' = Released(context, r)
          /\ UNCHANGED browser
          /\ FinallyTail(r)

\* await context.close(), its failure caught; then on to the browser
CloseContext(r) ==
    /\ alive /\ pc[r] = "closeContext"
    /\ UNCHANGED <<clockVars, cacheVars, price, method>>
    /\ ForgetPage(r)
    /\ page' = Released(page, r)
    /\ Quiet
    /\ IF browser[r] # "none"
       THEN /\ \E outcome \in {"closed", "close_failed"} :
                context' = [context EXCEPT ![r] = outcome]
            /\ Goto(r, "closeBrowser")
            /\ UNCHANGED <<guardVars, browser>>
       ELSE /\ context' = Released(context, r)
            /\ UNCHANGED browser
            /\ FinallyTail(r)

\* await browser.close(), its failure caught; then the end of the finally
CloseBrowser(r) ==
    /\ alive /\ pc[r] = "closeBrowser"
    /\ UNCHANGED <<clockVars, cacheVars>>
    /\ Quiet
    /\ browser' = Released(browser, r)
    /\ context' = Released(context, r)
    /\ UNCHANGED <<page, price, method, pageVars>>
    /\ FinallyTail(r)

\* ------------------------------------------------- process-level handlers
\* mutant: the process-level handlers reset the flag and leave the timer
HandlerResetFlagOnly ==
    /\ isProcessing' = FALSE
    /\ UNCHANGED <<processingTimeout, timers>>

\* if (isProcessing) { isProcessing = false; clear the timeout }
HandlerReset ==
    IF isProcessing THEN ResetGuard ELSE UNCHANGED guardVars

\* process.on('unhandledRejection')
UnhandledRejection ==
    /\ alive
    /\ HandlerReset
    /\ Quiet
    /\ UNCHANGED <<clockVars, cacheVars, localVars, pc>>

\* process.on('uncaughtException'): resets, then process.exit(1), which ends
\* every suspended handler and frees its locals
UncaughtException ==
    /\ alive
    /\ HandlerReset
    /\ alive' = FALSE
    /\ pc' = [r \in Requests |-> IF pc[r] \in {"idle", "done"} THEN pc[r] ELSE "killed"]
    /\ browser' = [r \in Requests |-> "none"]
    /\ context' = [r \in Requests |-> "none"]
    /\ page' = [r \in Requests |-> "none"]
    /\ price' = [r \in Requests |-> Null]
    /\ method' = [r \in Requests |-> NoMethod]
    /\ pageContent' = [r \in Requests |-> NoContent]
    /\ pageUrl' = [r \in Requests |-> NoUrl]
    /\ Quiet
    /\ UNCHANGED cacheVars

\* --------------------------------------------------------------- the clock
Min(a, b) == IF a < b THEN a ELSE b
Max(a, b) == IF a > b THEN a ELSE b

\* time passes; a due timer fires before the clock moves on
Tick ==
    /\ alive
    /\ \A t \in timers : t.due > 0
    /\ timers' = {[t EXCEPT !.due = Max(@ - TickMs, 0)] : t \in timers}
    /\ lastPriceAge' = Min(lastPriceAge + TickMs, CACHE_TIME)
    /\ Quiet
    /\ UNCHANGED <<alive, isProcessing, processingTimeout, lastPrice, localVars, pc>>

Handler(r) ==
    \/ Arrive(r) \/ Launch(r) \/ NewContext(r) \/ NewPage(r)
    \/ GotoRoot(r) \/ SettleRoot(r) \/ GotoTrading(r) \/ SettleTrading(r)
    \/ Content(r) \/ WaitGon(r) \/ Grace(r) \/ GonCheck(r)
    \/ EvalPrimary(r) \/ EvalTable(r) \/ EvalText(r)
    \/ CloseContext(r) \/ CloseBrowser(r)

Next ==
    \/ \E r \in Requests : Handler(r)
    \/ WatchdogFire
    \/ UnhandledRejection
    \/ UncaughtException
    \/ Tick

Spec == Init /\ [][Next]_vars

\* The runs in which no process-level error event occurs: there the watchdog
\* is the only thing that resets the flag of a handler that is still running.
NextWithoutProcessEvents ==
    \/ \E r \in Requests : Handler(r)
    \/ WatchdogFire
    \/ Tick

WatchdogSpec == Init /\ [][NextWithoutProcessEvents]_vars

\* The event loop runs a timer that is due, and time passes.  Nothing makes a
\* handler's await resolve: a handler may hang.
FairSpec == Spec /\ WF_vars(WatchdogFire) /\ WF_vars(Tick)

\* ------------------------------------------------------------ vocabulary
TryStages ==
    {"launch", "newContext", "newPage", "gotoRoot", "settleRoot", "gotoTrading",
     "settleTrading", "content", "waitGon", "grace", "gonCheck",
     "evalPrimary", "evalTable", "evalText"}
FinallyStages == {"closeContext", "closeBrowser"}
AcquisitionStages == TryStages \cup FinallyStages
ExtractionStages == {"waitGon", "grace", "gonCheck", "evalPrimary", "evalTable", "evalText"}

Acquiring(r) == pc[r] \in AcquisitionStages

IsSuccess(o) == o.to # 0 /\ o.body.status = 200 /\ "method" \in DOMAIN o.body
IsCached(o) == o.to # 0 /\ o.body.status = 200 /\ "cached" \in DOMAIN o.body
IsFailure(o) == o.to # 0 /\ o.body.status = 500

\* a string of digits, a point and exactly two digits
HasTwoFractionDigits(chars) ==
    /\ Len(chars) >= 4
    /\ chars[Len(chars) - 2] = "."
    /\ \A i \in 1..Len(chars) : i # Len(chars) - 2 => IsDigit(chars[i])

RECURSIVE DigitsValue(_)
\* the number a string of digits and points stands for, the points left out
DigitsValue(chars) ==
    IF chars = <<>> THEN 0
    ELSE LET front == SubSeq(chars, 1, Len(chars) - 1)
             last == chars[Len(chars)]
         IN  IF last = "." THEN DigitsValue(front)
             ELSE 10 * DigitsValue(front) + DigitValue(last)

\* a price string with two fractional digits and a value greater than zero
PositiveTwoDecimals(p) ==
    p.k = "text" /\ HasTwoFractionDigits(p.s) /\ DigitsValue(p.s) > 0

\* a price string with two fractional digits and a value in 50.00..150.00
InBandTwoDecimals(p) ==
    /\ p.k = "text"
    /\ HasTwoFractionDigits(p.s)
    /\ DigitsValue(p.s) >= 5000
    /\ DigitsValue(p.s) <= 15000

\* ----------------------------------------------------------------- claims
\* C1: guard mutual exclusion: in every reachable state at most one request is
\* performing a browser acquisition, and at most one browser is open.
C1_MutualExclusion ==
    /\ Cardinality({r \in Requests : Acquiring(r)}) <= 1
    /\ Cardinality({r \in Requests : browser[r] = "open"}) <= 1


\* while the guard is InFlight, the watchdog of the latest admission is pending
\* and has at most 90 s left
C2_WatchdogPending ==
    isProcessing =>
        \E t \in timers : t.id = processingTimeout /\ t.due >= 0 /\ t.due <= WATCHDOG_MS

\* a timer whose deadline has elapsed fires, and the guard is Idle after it
C2_FireStep ==
    (alive' /\ \E t \in timers : t.due <= 0 /\ t \notin timers') => ~isProcessing'

\* a request is turned away only while the guard is InFlight
C2_TurnedAwayStep ==
    \A r \in Requests :
        (pc[r] = "idle" /\ pc'[r] # "idle")
            => IF isProcessing THEN pc'[r] = "done" ELSE pc'[r] = "launch"

\* C2: guard liveness: while the guard is InFlight the watchdog of the latest
\* admission is pending with at most 90 s left; when a watchdog's deadline has
\* elapsed and it fires, the guard is Idle; and a request is only ever turned
\* away (Busy or cache hit) while the guard is InFlight, so one that arrives
\* after the deadline has fired is admitted.
C2_GuardLiveness ==
    /\ []C2_WatchdogPending
    /\ [][C2_FireStep /\ C2_TurnedAwayStep]_vars

\* C2 witness: the watchdog has fired against an acquisition that is still
\* running, and the guard is Idle.
C2_Witness ==
    /\ ~isProcessing
    /\ processingTimeout # NoTimer
    /\ Acquiring(processingTimeout)
    /\ timers = {}

\* C3: a request that finds the guard InFlight gets the cached Success (the
\* cached price and its timestamp, cached=true) iff the cache is non-empty and
\* younger than 30 s, and Busy (503) otherwise.
C3_BusyBranch ==
    [][\A r \in Requests :
        (pc[r] = "idle" /\ pc'[r] # "idle" /\ isProcessing)
            => /\ out'.to = r
               /\ sent'[r] = 1
               /\ IF lastPrice # Null /\ lastPriceAge < 30000
                  THEN out'.body = [status |-> 200, success |-> TRUE, price |-> lastPrice,
                                    updated |-> lastPriceAge, cached |-> TRUE]
                  ELSE out'.body.status = 503 /\ ~out'.body.success]_vars

\* C3 witness: a cache hit served with an entry that is some seconds old.
C3_Witness == IsCached(out) /\ out.body.updated > 0 /\ isProcessing

\* the step stores a price or a newer timestamp
C4_CacheWritten == lastPrice' # lastPrice \/ lastPriceAge' < lastPriceAge

\* C4: the cache changes only in a step that sends a Success carrying the new
\* price; a step that sends a Failure leaves price and timestamp as they were.
C4_FailuresKeepCache ==
    [][/\ IsFailure(out') => (lastPrice' = lastPrice /\ lastPriceAge' = lastPriceAge)
       /\ C4_CacheWritten =>
            (IsSuccess(out') /\ out'.body.price = lastPrice' /\ lastPriceAge' = 0)]_vars

\* C4 witness: an acquisition has just failed and the cache still holds a price.
C4_Witness == IsFailure(out) /\ lastPrice # Null

\* C5: the guard never stays InFlight forever.
C5_GuardExit == isProcessing ~> ~isProcessing

\* C5 witness: a successful acquisition has run its cleanup to the end and
\* the guard is Idle.
C5_Witness ==
    /\ ~isProcessing
    /\ lastPrice # Null
    /\ \A r \in Requests : pc[r] = "done"
    /\ out = NoOutput

\* C6: every request's handler sends exactly one response on its way out of
\* the try block, whatever failed, and none before or after; each response is
\* a Success with a price, a Busy, or a Failure with a message.
C6_OneResponse ==
    /\ \A r \in Requests :
        /\ sent[r] <= 1
        /\ pc[r] \in TryStages \cup {"idle"} => sent[r] = 0
        /\ pc[r] \in FinallyStages \cup {"done"} => sent[r] = 1
    /\ out # NoOutput =>
        \/ out.body.status = 200 /\ out.body.success /\ out.body.price # Null
        \/ out.body.status = 503 /\ ~out.body.success
        \/ out.body.status = 500 /\ ~out.body.success /\ out.body.error # ""

\* C6 witness: closing the context failed after the response was sent.
C6_Witness ==
    \E r \in Requests :
        pc[r] = "closeBrowser" /\ context[r] = "close_failed" /\ sent[r] = 1

\* C7: every price returned or cached is a string with exactly two fractional
\* digits and a value greater than zero.
C7_PositiveTwoDecimals ==
    /\ lastPrice # Null => PositiveTwoDecimals(lastPrice)
    /\ IsSuccess(out) \/ IsCached(out) => PositiveTwoDecimals(out.body.price)

\* C8 as claimed: every price returned or cached lies in 50..150, whichever
\* strategy produced it.
C8_AllInBand ==
    /\ lastPrice # Null => InBandTwoDecimals(lastPrice)
    /\ IsSuccess(out) \/ IsCached(out) => InBandTwoDecimals(out.body.price)

\* C8 amended: a Success produced by the table or the text strategy carries,
\* and stores in the cache, a price in 50..150 with two fractional digits.
C8_ScrapedInBand ==
    (IsSuccess(out) /\ out.body.method \in {"table", "text"})
        => InBandTwoDecimals(out.body.price) /\ lastPrice = out.body.price

\* C8 witness: a Success from the table strategy.
C8_Witness == IsSuccess(out) /\ out.body.method = "table"

\* what the step that ends one strategy may do: go on to the next strategy,
\* send the Success of this strategy, or (the last one) send NoQuoteFound
C9_StrategyStep(r, stage, next, tag, results) ==
    (pc[r] = stage /\ pc'[r] # stage /\ alive')
        => \/ next # "" /\ pc'[r] = next /\ out' = NoOutput
           \/ /\ out'.to = r
              /\ IsSuccess(out')
              /\ out'.body.method = tag
              /\ out'.body.price \in {ToFixed2(p) : p \in results \ {Null}}
              /\ pc'[r] \in FinallyStages
           \/ /\ next = ""
              /\ out'.to = r
              /\ IsFailure(out')
              /\ out'.body.error = "price not found"
              /\ pc'[r] \in FinallyStages

\* a later strategy runs only while no usable price has been found
C9_NotFoundSoFar ==
    \A r \in Requests : pc[r] \in {"evalTable", "evalText"} => ~Usable(price[r])

\* C9: the strategies run in the order primary, table, text; a strategy runs
\* only while no usable price has been found; a Success carries the price and
\* the tag of the strategy that has just run and ends the chain; the chain
\* run through without a price ends in the NoQuoteFound Failure.
C9_FallbackOrder ==
    /\ []C9_NotFoundSoFar
    /\ [][\A r \in Requests :
            /\ C9_StrategyStep(r, "evalPrimary", "evalTable", "window.gon.ticker.last", GonResults)
            /\ C9_StrategyStep(r, "evalTable", "evalText", "table", TableResults)
            /\ C9_StrategyStep(r, "evalText", "", "text", TextResults)]_vars

\* C9 witness: a Success from the text strategy, the last of the chain.
C9_Witness == IsSuccess(out) /\ out.body.method = "text"

\* C10: while the extraction chain runs, the only Failure a handler sends is
\* the one for the exhausted chain, after the text strategy.
C10_StrategyFailuresSwallowed ==
    [][\A r \in Requests :
        (pc[r] \in ExtractionStages /\ out'.to = r /\ IsFailure(out'))
            => pc[r] = "evalText" /\ out'.body.error = "price not found"]_vars

\* the page read by the block check is a redirect to the mitigation domain,
\* or is short and carries the vendor's marker
C11_Blocked(url, content) ==
    \/ url \in {"exhkqyad", "servicepipe.ru"}
    \/ content.length < MIN_BLOCK_LENGTH /\ content.marker

\* the step that reads the page and runs the block check
C11_CheckStep(r) ==
    (pc[r] = "content" /\ pc'[r] # "content" /\ pageUrl'[r] # NoUrl)
        => IF C11_Blocked(pageUrl'[r], pageContent'[r])
           THEN /\ out'.to = r
                /\ IsFailure(out')
                /\ out'.body.error \in {BlockedRedirectMsg, BlockedMarkerMsg}
                /\ pc'[r] = "closeContext"
                /\ lastPrice' = lastPrice /\ lastPriceAge' = lastPriceAge
           ELSE pc'[r] = "waitGon" /\ out' = NoOutput

\* once in cleanup a handler only closes the context, then the browser, and
\* returns with its session gone and the guard Idle; it runs no strategy
C11_CleanupStep(r) ==
    /\ (pc[r] = "closeContext" /\ pc'[r] # "closeContext" /\ alive')
            => pc'[r] = "closeBrowser"
    /\ (pc[r] = "closeBrowser" /\ pc'[r] # "closeBrowser" /\ alive')
            => /\ pc'[r] = "done"
               /\ browser'[r] = "none" /\ context'[r] = "none"
               /\ ~isProcessing'

\* C11: block detection fails fast: when the resolved URL is a mitigation
\* redirect, or the page is shorter than 5000 characters and carries the
\* vendor marker, the handler sends a Failure with a blocking message, leaves
\* the cache as it was and goes straight to cleanup, which runs no strategy,
\* releases the session and leaves the guard Idle; otherwise the handler goes
\* on to the extraction chain.
C11_BlockFailsFast ==
    [][\A r \in Requests : C11_CheckStep(r) /\ C11_CleanupStep(r)]_vars

\* C11 witness: a short page with the marker was read and the handler is in
\* cleanup with the blocking Failure sent.
C11_Witness ==
    \E r \in Requests :
        /\ pc[r] = "closeContext"
        /\ pageUrl[r] = TradingUrl
        /\ pageContent[r].marker
        /\ out.to = r /\ IsFailure(out) /\ out.body.error = BlockedMarkerMsg

\* the steps of the two-phase navigation: whatever a navigation did, the
\* handler sends nothing, stays in the try block and moves on towards the
\* settle wait before the block check
C12_NavigationStep(r) ==
    (pc[r] \in {"gotoRoot", "settleRoot", "gotoTrading"} /\ pc'[r] # pc[r] /\ alive')
        => /\ out' = NoOutput /\ sent' = sent
           /\ isProcessing' = isProcessing
           /\ lastPrice' = lastPrice /\ lastPriceAge' = lastPriceAge
           /\ pc[r] = "gotoRoot" => pc'[r] \in {"settleRoot", "gotoTrading"}
           /\ pc[r] = "settleRoot" => pc'[r] = "gotoTrading"
           /\ pc[r] = "gotoTrading" => pc'[r] = "settleTrading"

\* a navigation that failed is recognised by the page it left behind
C12_FailedStep(r) ==
    (pc[r] \in {"gotoRoot", "gotoTrading"} /\ pc'[r] # pc[r] /\ alive' /\ page'[r] = page[r])
        => pc'[r] = (IF pc[r] = "gotoRoot" THEN "gotoTrading" ELSE "settleTrading")

\* C12: navigation failures are non-fatal: a failed root-page or trading-page
\* navigation sends no response and does not end the try block; the handler
\* goes on to the settle wait, from where the block check and the extraction
\* chain decide the result; every response of an admitted request is sent from
\* the settle wait or later, never from a navigation step.
C12_NavigationNonFatal ==
    [][\A r \in Requests : C12_NavigationStep(r) /\ C12_FailedStep(r)]_vars

\* C12 witness: both navigations have failed (the page is still blank) and
\* the handler is in the settle wait that precedes the block check.
C12_Witness ==
    \E r \in Requests :
        /\ pc[r] = "settleTrading"
        /\ page[r] = "blank"
        /\ sent[r] = 0

\* the step in which a handler leaves the try block: it sends its one response
\* and starts the release with the context if there is one, else with the
\* browser if there is one
C13_LeaveTryStep(r) ==
    (pc[r] \in TryStages /\ pc'[r] \notin TryStages /\ alive')
        => /\ out'.to = r /\ sent'[r] = 1
           /\ pc'[r] = (IF context[r] # "none" THEN "closeContext"
                        ELSE IF browser[r] # "none" THEN "closeBrowser"
                        ELSE "done")

\* the release steps: the context's close, failed or not, is followed by the
\* browser's close, and then the handler returns; neither sends anything
C13_ReleaseStep(r) ==
    (pc[r] \in FinallyStages /\ pc'[r] # pc[r] /\ alive')
        => /\ out' = NoOutput /\ sent' = sent
           /\ pc[r] = "closeContext" =>
                /\ pc'[r] = "closeBrowser"
                /\ context'[r] \in {"closed", "close_failed"}
                /\ browser'[r] = "open"
           /\ pc[r] = "closeBrowser" => pc'[r] = "done" /\ browser'[r] = "none"

\* a handler that has launched a browser holds it until its close is awaited
C13_BrowserHeld ==
    \A r \in Requests :
        /\ pc[r] \in (TryStages \ {"launch"}) \cup FinallyStages => browser[r] = "open"
        /\ context[r] # "none" => browser[r] = "open"
        /\ pc[r] \in {"idle", "launch", "done", "killed"} => browser[r] = "none"

\* C13: session release on every exit path: a handler that leaves the try
\* block, by a Success or by any Failure, closes the context if it created one
\* and then the browser; a failed close of the context is still followed by
\* the browser's close; and the release steps send nothing, so the response
\* already sent stays the caller's result.
C13_SessionReleased ==
    /\ []C13_BrowserHeld
    /\ [][\A r \in Requests : C13_LeaveTryStep(r) /\ C13_ReleaseStep(r)]_vars

\* C13 witness: after a Success the close of the context has failed and the
\* browser's close is awaited.
C13_Witness ==
    \E r \in Requests :
        /\ pc[r] = "closeBrowser"
        /\ context[r] = "close_failed"
        /\ browser[r] = "open"
        /\ lastPrice # Null /\ lastPriceAge = 0

\* C14 as claimed: an acquisition that fails while the cache entry is younger
\* than 30 s is answered from the cache, so no Failure is ever sent while
\* such an entry exists.
C14_CacheServedOnFailure ==
    IsFailure(out) => ~(lastPrice # Null /\ lastPriceAge < CACHE_TIME)

\* C14 amended: the cached quote is served only to a request that arrives
\* while the guard is InFlight and the entry is younger than 30 s; the handler
\* of an admitted request never answers from the cache, whatever the cache
\* holds when it fails.
C14_CacheServedOnlyWhenBusy ==
    [][\A r \in Requests :
        sent'[r] # sent[r]
            => /\ out'.to = r
               /\ IsCached(out') <=>
                    /\ pc[r] = "idle"
                    /\ isProcessing
                    /\ lastPrice # Null /\ lastPriceAge < CACHE_TIME
               /\ pc[r] # "idle" => IsSuccess(out') \/ IsFailure(out')]_vars

\* C14 witness: an admitted request has been answered with a Failure while
\* the cache held an entry some seconds old and still fresh.
C14_Witness ==
    \E r \in Requests :
        /\ out.to = r /\ IsFailure(out)
        /\ pc[r] \in FinallyStages
        /\ lastPrice # Null /\ lastPriceAge > 0 /\ lastPriceAge < CACHE_TIME

\* every pending timer is the watchdog of the latest admission, whose
\* acquisition holds the guard and is still running
C15_TimerOfHolder ==
    \A t \in timers :
        /\ t.id = processingTimeout
        /\ isProcessing
        /\ Acquiring(t.id)

\* a watchdog that force-resets the guard is the one armed by the latest
\* admission
C15_FireStep ==
    \A t \in timers :
        (t.due <= 0 /\ t \notin timers' /\ isProcessing /\ ~isProcessing' /\ alive')
            => processingTimeout = t.id /\ Acquiring(t.id)

\* a step that clears the guard, or ends a cleanup, leaves no timer pending
C15_ClearStep ==
    (\/ isProcessing /\ ~isProcessing'
     \/ \E r \in Requests : pc[r] \in FinallyStages /\ pc'[r] = "done")
        => timers' = {}

\* C15: no stale watchdog: a pending watchdog always belongs to the latest
\* admitted acquisition, so it never force-resets a guard taken by a later
\* one; and whenever a cleanup or a process-level handler clears the guard,
\* no watchdog is left pending.
C15_NoStaleWatchdog ==
    /\ []C15_TimerOfHolder
    /\ [][C15_FireStep /\ C15_ClearStep]_vars

\* C15 witness: an earlier acquisition is still running while a later one
\* holds the guard, and the only pending watchdog is the later one's.
C15_Witness ==
    \E a, b \in Requests :
        /\ a < b
        /\ Acquiring(a) /\ Acquiring(b)
        /\ isProcessing /\ processingTimeout = b
        /\ \E t \in timers : t.id = b /\ t.due < WATCHDOG_MS

\* C16: late cleanup after a watchdog timeout is a no-op on the guard: when a
\* handler whose guard the watchdog has force-reset ends its cleanup while a
\* request admitted in the meantime holds the guard, the flag stays set and
\* that request's watchdog stays pending.  (Checked on the runs without
\* process-level error events, where only the watchdog takes the guard from a
\* running handler.)
C16_LateCleanupNoOp ==
    [][\A a \in Requests :
        (/\ pc[a] \in FinallyStages /\ pc'[a] = "done"
         /\ isProcessing /\ processingTimeout # a)
            => isProcessing' /\ timers' = timers]_vars

\* the first step of a request that finds the guard Idle: it sets the flag in
\* that same step, answers nothing and goes on to launch a browser of its own
C17_AdmissionStep(r) ==
    (pc[r] = "idle" /\ pc'[r] # "idle" /\ ~isProcessing)
        => /\ isProcessing'
           /\ pc'[r] = "launch"
           /\ browser'[r] = "none"
           /\ sent'[r] = 0 /\ out' = NoOutput

\* a response with cached=true goes to a request that found the guard InFlight
C17_CachedStep(r) ==
    (sent'[r] # sent[r] /\ IsCached(out')) => pc[r] = "idle" /\ isProcessing

\* the launch gives the handler a browser it did not have
C17_LaunchStep(r) ==
    (pc[r] = "launch" /\ pc'[r] = "newContext") => browser[r] = "none" /\ browser'[r] = "open"

\* C17: a request that finds the guard Idle is always admitted, however
\* recent the cache entry is: in one atomic step the guard becomes InFlight
\* and the handler starts an acquisition that launches its own browser; a
\* cached=true response is sent only to a request that found the guard
\* InFlight.
C17_IdleAlwaysAdmitted ==
    [][\A r \in Requests :
        C17_AdmissionStep(r) /\ C17_CachedStep(r) /\ C17_LaunchStep(r)]_vars

\* C17 witness: a request has been admitted while the cache holds a fresh
\* entry.
C17_Witness ==
    \E r \in Requests :
        /\ pc[r] = "launch"
        /\ processingTimeout = r /\ isProcessing
        /\ lastPrice # Null /\ lastPriceAge < CACHE_TIME

\* the cache holds a price and its timestamp, or neither
C18_NeverHalfWritten == lastPrice = Null => lastPriceAge = CACHE_TIME

\* a step that writes the price or the timestamp writes both, and is the step
\* in which a handler ends the extraction chain with the Success that
\* carries them
C18_WriteStep ==
    (lastPrice' # lastPrice \/ lastPriceAge' < lastPriceAge)
        => \E r \in Requests :
            /\ pc[r] \in ExtractionStages /\ pc'[r] \in FinallyStages
            /\ out'.to = r /\ IsSuccess(out')
            /\ lastPrice' = out'.body.price /\ lastPrice' # Null
            /\ lastPriceAge' = 0 /\ out'.body.updated = 0

\* a cached response carries the price and the timestamp as the cache holds
\* them
C18_ReadStep ==
    \A r \in Requests :
        (sent'[r] # sent[r] /\ IsCached(out'))
            => out'.body.price = lastPrice /\ out'.body.updated = lastPriceAge

\* C18: the cache is written atomically and only at the end of a successful
\* acquisition: price and timestamp change together, in the step that sends
\* the Success, so the cache is either empty or holds the pair one
\* acquisition wrote, and a cached response always carries such a pair.
C18_CacheWrittenAtomically ==
    /\ []C18_NeverHalfWritten
    /\ [][C18_WriteStep /\ C18_ReadStep]_vars

\* C18 witness: one acquisition has just written the cache while another is
\* in its extraction chain.
C18_Witness ==
    \E r, other \in Requests :
        /\ other # r
        /\ pc[other] \in ExtractionStages
        /\ pc[r] \in FinallyStages
        /\ out.to = r /\ IsSuccess(out)
        /\ lastPrice = out.body.price /\ lastPriceAge = 0

\* the first step of a request that finds the guard InFlight: its one response
\* is sent and the handler has returned, with guard, watchdog and cache as
\* they were and no browser
C19_BusyStep(r) ==
    (pc[r] = "idle" /\ pc'[r] # "idle" /\ isProcessing)
        => /\ pc'[r] = "done"
           /\ out'.to = r /\ sent'[r] = 1
           /\ isProcessing' /\ timers' = timers /\ processingTimeout' = processingTimeout
           /\ lastPrice' = lastPrice /\ lastPriceAge' = lastPriceAge
           /\ browser' = browser /\ context' = context

\* a handler that has returned does nothing more
C19_Returned(r) ==
    pc[r] = "done" => pc'[r] = "done" /\ sent'[r] = sent[r] /\ browser'[r] = "none"

\* C19: a request that arrives while the guard is InFlight is answered in its
\* first step and is never run later; it launches no browser and leaves the
\* flag, the pending watchdog and the cache (price and timestamp) unchanged.
C19_BusyLeavesStateAlone ==
    [][\A r \in Requests : C19_BusyStep(r) /\ C19_Returned(r)]_vars

\* C19 witness: a request has been turned away with Busy while the watchdog
\* of the running acquisition is part-way through its 90 s.
C19_Witness ==
    \E r \in Requests :
        /\ pc[r] = "done"
        /\ out.to = r /\ out.body.status = 503
        /\ isProcessing /\ processingTimeout # r
        /\ \E t \in timers : t.due > 0 /\ t.due < WATCHDOG_MS

\* C20: guard/watchdog coupling: in every reachable state the guard is
\* InFlight if and only if exactly one watchdog timer is pending; there is
\* never more than one pending timer and never one while the guard is Idle.
C20_GuardWatchdogCoupling ==
    /\ Cardinality(timers) <= 1
    /\ isProcessing <=> Cardinality(timers) = 1

\* C20 witness: two acquisitions are running, the guard is Idle and no
\* watchdog is pending (after a process-level handler or a late cleanup).
C20_Witness ==
    \E a, b \in Requests :
        /\ a < b
        /\ Acquiring(a) /\ Acquiring(b)
        /\ ~isProcessing /\ timers = {}

====
